---- MODULE Spec2Model ----
(***************************************************************************)
(* Kondo: a file organizer.  One run reads a TOML config naming three      *)
(* destination directories, lists the source directory once (not           *)
(* recursively) and renames every regular file whose lower-cased extension *)
(* is in one of three hardcoded sets into the directory of its category.   *)
(*                                                                         *)
(* A path is a sequence of names, a name is a sequence of one-character    *)
(* strings; <<>> is the working directory.  The filesystem is a function   *)
(* from the existing paths to nodes.                                       *)
(***************************************************************************)
EXTENDS Integers, Sequences, FiniteSets, Bags, TLC

VARIABLES
    source_dir,     \* args.source, as a path
    cfg,            \* the file at args.config: readable?, parsable?, its TOML tree
    fs,             \* the filesystem
    pc,             \* position of the run in organize_files / main
    config,         \* the parsed TOML value (line 61)
    dirs,           \* images_dir, documents_dir, audio_dir (lines 66-68)
    mappings,       \* the HashMap get_file_type_mappings returned (line 70)
    pending,        \* names the read_dir iterator has still to yield
    path,           \* entry.path() of the file being moved
    dest_dir,       \* the directory move_file was given
    err,            \* kind of the first error of the run, "none" if none
    exitCode,       \* process exit status, -1 while running
    stderr,         \* what the run wrote first on the error stream
    run,            \* "first", or "second" when the program was run again
    fsRun,          \* history: the filesystem when the current run started
    passed,         \* history: bag of paths handed to move_file in this run
    renamed,        \* history: paths fs::rename moved successfully in this run
    enumerated,     \* history: directories whose entries this run listed
    resolutions     \* history: times this run resolved the configuration

vars == <<source_dir, cfg, fs, pc, config, dirs, mappings, pending, path, dest_dir,
          err, exitCode, stderr, run, fsRun, passed, renamed, enumerated, resolutions>>

----------------------------------------------------------------------------
(* Bounds of the model *)

\* most entries the source directory holds at the start
MaxEntries == 2

----------------------------------------------------------------------------
(* Names and paths *)

nSrc   == <<"s", "r", "c">>
nOut   == <<"o", "u", "t">>
nBlock == <<"f">>
nGone  == <<"g", "o", "n", "e">>
nImg   == <<"i", "m", "g">>
nDoc   == <<"d", "o", "c", "s">>
nAud   == <<"a", "u", "d">>
nSub   == <<"s", "u", "b">>

nPhoto  == <<"p", ".", "J", "P", "G">>
nNotes  == <<"n", ".", "t", "x", "t">>
nSong   == <<"s", ".", "1", ".", "M", "p", "3">>
nZip    == <<"a", ".", "z", "i", "p">>
nReadme == <<"R">>
nHidden == <<".", "j", "p", "g">>
nTrail  == <<"x", ".">>
nAlbum  == <<"a", "l", ".", "j", "p", "g">>

SRC   == <<nSrc>>
BLOCK == <<nBlock>>
GONE  == <<nGone>>
SUB   == <<nSrc, nSub>>

Join(d, n) == Append(d, n)
Parent(p) == SubSeq(p, 1, Len(p) - 1)
FileName(p) == p[Len(p)]
IsPrefix(d, p) == Len(d) <= Len(p) /\ SubSeq(p, 1, Len(d)) = d
Prefixes(p) == {SubSeq(p, 1, k) : k \in 0..Len(p)}

DirNode == [kind |-> "dir", id |-> <<>>]
FileNode(p) == [kind |-> "file", id |-> p]

Exists(f, p) == p \in DOMAIN f
IsDir(f, p) == p \in DOMAIN f /\ f[p].kind = "dir"
IsFile(f, p) == p \in DOMAIN f /\ f[p].kind = "file"
Children(f, d) == {p \in DOMAIN f : Len(p) = Len(d) + 1 /\ IsPrefix(d, p)}
Below(f, d) == {p \in DOMAIN f : Len(p) > Len(d) /\ IsPrefix(d, p)}

----------------------------------------------------------------------------
(* get_extension: Path::extension, then to_str, then to_lowercase *)

None == <<>>
Some(x) == <<x>>

Upper == <<"A", "B", "C", "D", "E", "F", "G", "H", "I", "J", "K", "L", "M", "N", "O", "P", "Q", "R", "S", "T", "U", "V", "W", "X", "Y", "Z">>
Lower == <<"a", "b", "c", "d", "e", "f", "g", "h", "i", "j", "k", "l", "m", "n", "o", "p", "q", "r", "s", "t", "u", "v", "w", "x", "y", "z">>

\* char::to_lowercase on the characters the names use
ToLowerChar(c) ==
    IF \E i \in 1..Len(Upper) : Upper[i] = c
    THEN Lower[CHOOSE i \in 1..Len(Upper) : Upper[i] = c]
    ELSE c

to_lowercase(s) == [i \in 1..Len(s) |-> ToLowerChar(s[i])]

\* Path::extension of a file name: nothing for "..", for a name without a dot and
\* for a name whose only dot is its first character; else what follows the last dot
PathExtension(name) ==
    LET dots == {i \in 1..Len(name) : name[i] = "."}
        last == CHOOSE i \in dots : \A j \in dots : j <= i
    IN  IF name = <<".", ".">> \/ dots = {} THEN None
        ELSE IF last = 1 THEN None
        ELSE Some(SubSeq(name, last + 1, Len(name)))

get_extension(file_path) ==
    LET e == PathExtension(FileName(file_path))
    IN  IF e = None THEN None ELSE Some(to_lowercase(e[1]))

----------------------------------------------------------------------------
(* get_file_type_mappings: the three (extensions, category) entries *)

ImagesExtensions ==
    <<<<"j", "p", "g">>,
        <<"j", "p", "e", "g">>,
        <<"p", "n", "g">>,
        <<"g", "i", "f">>,
        <<"b", "m", "p">>,
        <<"t", "i", "f", "f">>,
        <<"w", "e", "b", "p">>>>

DocumentsExtensions ==
    <<<<"p", "d", "f">>,
        <<"d", "o", "c">>,
        <<"d", "o", "c", "x">>,
        <<"t", "x", "t">>,
        <<"r", "t", "f">>,
        <<"o", "d", "t">>,
        <<"x", "l", "s">>,
        <<"x", "l", "s", "x">>,
        <<"p", "p", "t">>,
        <<"p", "p", "t", "x">>>>

AudioExtensions ==
    <<<<"m", "p", "3">>,
        <<"w", "a", "v">>,
        <<"o", "g", "g">>,
        <<"f", "l", "a", "c">>,
        <<"a", "a", "c">>,
        <<"w", "m", "a">>>>

\* "jpg" listed for documents too
get_file_type_mappings_Duplicate ==
    { [extensions |-> ImagesExtensions, category |-> "Images"],
      [extensions |-> Append(DocumentsExtensions, <<"j", "p", "g">>), category |-> "Documents"],
      [extensions |-> AudioExtensions, category |-> "Audio"] }

get_file_type_mappings ==
    { [extensions |-> ImagesExtensions, category |-> "Images"],
      [extensions |-> DocumentsExtensions, category |-> "Documents"],
      [extensions |-> AudioExtensions, category |-> "Audio"] }

\* the orders in which iterating a HashMap holding `table` can visit its entries
\* (HashMap::iter visits them in arbitrary order)
IterationOrders(table) ==
    {o \in [1..Cardinality(table) -> table] : \A i, j \in 1..Cardinality(table) : o[i] = o[j] => i = j}

\* extensions.iter().any(|&ext| ext == extension)
AnyEq(extensions, extension) == \E i \in 1..Len(extensions) : extensions[i] = extension

Categories == {"Images", "Documents", "Audio"}

\* the loop with a fallback to the first entry when no entry lists the extension
Classify_Fallback(m, extension) ==
    LET hits == {i \in 1..Len(m) : AnyEq(m[i].extensions, extension) /\ m[i].category \in Categories}
    IN  IF hits = {} THEN Some(m[1].category)
        ELSE Some(m[CHOOSE i \in hits : \A j \in hits : i <= j].category)

\* the loop over the table: the first entry, in iteration order, that lists the
\* extension and whose category is one of the three the match knows
Classify(m, extension) ==
    LET hits == {i \in 1..Len(m) : AnyEq(m[i].extensions, extension) /\ m[i].category \in Categories}
    IN  IF hits = {} THEN None
        ELSE Some(m[CHOOSE i \in hits : \A j \in hits : i <= j].category)

\* the match with two arms mixed up
DestDirOf_Swapped(d, category) ==
    CASE category = "Images" -> d.documents
      [] category = "Documents" -> d.images
      [] category = "Audio" -> d.audio

\* match *category { "Images" => &images_dir, ... }
DestDirOf(d, category) ==
    CASE category = "Images" -> d.images
      [] category = "Documents" -> d.documents
      [] category = "Audio" -> d.audio

----------------------------------------------------------------------------
(* The config file and the toml::Value tree it parses to *)

NoTable == [k \in {} |-> 0]
TableValue(t) == [type |-> "table", str |-> <<>>, tbl |-> t]
StringValue(p) == [type |-> "string", str |-> p, tbl |-> NoTable]
IntegerValue == [type |-> "integer", str |-> <<>>, tbl |-> NoTable]

\* Value::get with a string key: the entry of a table, nothing for any other value
Get(v, key) == IF v.type = "table" /\ key \in DOMAIN v.tbl THEN Some(v.tbl[key]) ELSE None

\* Value::as_str
AsStr(v) == IF v.type = "string" THEN Some(v.str) ELSE None

DirKeys == <<"images", "documents", "audio">>
MissingKey == <<"Missing 'images' key in config", "Missing 'documents' key in config",
                "Missing 'audio' key in config">>

\* a key that is missing or no string falls back to a directory of its own
ExtractDirs_Defaults(c) ==
    LET directories == Get(c, "directories")
        val(k) == IF directories = None THEN None ELSE Get(directories[1], k)
        path_of(k, default) == IF val(k) = None \/ AsStr(val(k)[1]) = None
                               THEN <<nOut, default>>
                               ELSE AsStr(val(k)[1])[1]
    IN  [panic |-> "",
         images |-> path_of("images", nImg),
         documents |-> path_of("documents", nDoc),
         audio |-> path_of("audio", nAud)]

\* lines 65-68: the directories section, then the three keys in order; the first
\* expect or unwrap that meets nothing panics with its message
ExtractDirs(c) ==
    LET directories == Get(c, "directories")
        val(k) == Get(directories[1], k)
        bad(k) == val(k) = None \/ AsStr(val(k)[1]) = None
        firstBad == CHOOSE i \in 1..3 : bad(DirKeys[i]) /\ \A j \in 1..(i - 1) : ~bad(DirKeys[j])
        path_of(k) == AsStr(val(k)[1])[1]
    IN  IF directories = None
        THEN [panic |-> "Missing 'directories' section in config"]
        ELSE IF \E i \in 1..3 : bad(DirKeys[i])
        THEN [panic |-> IF val(DirKeys[firstBad]) = None
                        THEN MissingKey[firstBad]
                        ELSE "unwrap on a None value"]
        ELSE [panic |-> "",
              images |-> path_of("images"),
              documents |-> path_of("documents"),
              audio |-> path_of("audio")]

----------------------------------------------------------------------------
(* The filesystem calls the program makes *)

\* fs::create_dir_all: fine when no existing component of the path is a file;
\* then every missing component becomes a directory
CreateDirAllFails(f, p) == \E q \in Prefixes(p) : IsFile(f, q)
MissingDirs(f, p) == {q \in Prefixes(p) : ~Exists(f, q)}
MakeDirs(f, new) == [q \in DOMAIN f \cup new |-> IF q \in DOMAIN f THEN f[q] ELSE DirNode]
CreateDirAll(f, p) == MakeDirs(f, MissingDirs(f, p))

\* fs::rename (rename(2)): an error when the source is missing, when the parent of
\* the target is not a directory, when a file would replace a directory or a
\* directory a file or a directory that is not empty, or when a directory would
\* move below itself; nothing happens when both paths are the same
RenameFails(f, from, to) ==
    \/ ~Exists(f, from)
    \/ ~IsDir(f, Parent(to))
    \/ from # to /\ IsFile(f, from) /\ IsDir(f, to)
    \/ from # to /\ IsDir(f, from) /\ (IsFile(f, to) \/ Children(f, to) # {} \/ IsPrefix(from, to))

Moved(from, to, q) == to \o SubSeq(q, Len(from) + 1, Len(q))

\* a copy: the source stays where it was
Rename_Copy(f, from, to) ==
    IF from = to THEN f
    ELSE [q \in DOMAIN f \cup {to} |-> IF q = to THEN f[from] ELSE f[q]]

Rename(f, from, to) ==
    IF from = to THEN f
    ELSE LET gone == {q \in DOMAIN f : IsPrefix(from, q)}
             kept == (DOMAIN f \ gone) \ {to}
             come == {Moved(from, to, q) : q \in gone}
         IN  [q \in kept \cup come |->
                 IF q \in come
                 THEN f[CHOOSE o \in gone : Moved(from, to, o) = q]
                 ELSE f[q]]

----------------------------------------------------------------------------
(* The inputs: command line, config file, initial filesystem *)

File(n) == [name |-> n, kind |-> "file", kids |-> {}]
Dir(n, k) == [name |-> n, kind |-> "dir", kids |-> k]

\* what the source directory may hold at the start
Candidates ==
    { File(nPhoto), File(nNotes), File(nSong), File(nZip), File(nReadme),
      File(nHidden), File(nTrail),
      Dir(nAlbum, {}),
      Dir(nSub, {[name |-> nPhoto, kind |-> "file"], [name |-> nNotes, kind |-> "dir"]}) }

SourceContents == {S \in SUBSET Candidates : Cardinality(S) <= MaxEntries}

NodeOf(kind, p) == IF kind = "dir" THEN DirNode ELSE FileNode(p)

\* the working directory holds the directory src with the entries S and the file f
InitialFs(S) ==
    LET top == {<<Join(SRC, c.name), c.kind>> : c \in S}
        low == UNION {{<<Join(Join(SRC, c.name), k.name), k.kind>> : k \in c.kids} : c \in S}
        all == {<< <<>>, "dir">>, <<SRC, "dir">>, <<BLOCK, "file">>} \cup top \cup low
    IN  [p \in {e[1] : e \in all} |-> NodeOf((CHOOSE e \in all : e[1] = p)[2], p)]

\* args.source: the directory, a path that does not exist, a regular file
SourceArgs == {SRC, GONE, BLOCK}

DefaultDir(key) ==
    CASE key = "images" -> <<nOut, nImg>>
      [] key = "documents" -> <<nOut, nDoc>>
      [] key = "audio" -> <<nOut, nAud>>

\* what the config binds a key to: nothing, an integer, or one of four paths
KeyChoices(key) ==
    {None, Some(IntegerValue)} \cup
    {Some(StringValue(d)) : d \in {DefaultDir(key), SRC, SUB, BLOCK}}

DirectoriesTable(i, d, a) ==
    LET ch == [k \in {"images", "documents", "audio"} |->
                  IF k = "images" THEN i ELSE IF k = "documents" THEN d ELSE a]
    IN  [k \in {k \in DOMAIN ch : ch[k] # None} |-> ch[k][1]]

Root(directories) == TableValue([k \in {"directories"} |-> directories])

ConfigFile(readable, parsable, root) == [readable |-> readable, parsable |-> parsable, root |-> root]

Configs ==
    { ConfigFile(FALSE, FALSE, TableValue(NoTable)),
      ConfigFile(TRUE, FALSE, TableValue(NoTable)),
      ConfigFile(TRUE, TRUE, TableValue(NoTable)),
      ConfigFile(TRUE, TRUE, Root(IntegerValue)) } \cup
    { ConfigFile(TRUE, TRUE, Root(TableValue(DirectoriesTable(i, d, a)))) :
        i \in KeyChoices("images"), d \in KeyChoices("documents"), a \in KeyChoices("audio") }

----------------------------------------------------------------------------
(* The run *)

NoValue == [type |-> "none", str |-> <<>>, tbl |-> NoTable]

\* what a run starts with, whatever ran before
RunStart ==
    /\ pc' = "read_config"
    /\ config' = NoValue
    /\ dirs' = None
    /\ mappings' = {}
    /\ pending' = {}
    /\ path' = <<>>
    /\ dest_dir' = <<>>
    /\ err' = "none"
    /\ exitCode' = -1
    /\ stderr' = ""
    /\ passed' = EmptyBag
    /\ renamed' = {}
    /\ enumerated' = {}
    /\ resolutions' = 0

Init ==
    /\ source_dir \in SourceArgs
    /\ cfg \in Configs
    /\ \E S \in SourceContents : fs = InitialFs(S)
    /\ fsRun = fs
    /\ run = "first"
    /\ pc = "read_config"
    /\ config = NoValue
    /\ dirs = None
    /\ mappings = {}
    /\ pending = {}
    /\ path = <<>>
    /\ dest_dir = <<>>
    /\ err = "none"
    /\ exitCode = -1
    /\ stderr = ""
    /\ passed = EmptyBag
    /\ renamed = {}
    /\ enumerated = {}
    /\ resolutions = 0

Goto(label) == pc' = label /\ UNCHANGED <<err, exitCode, stderr>>

\* main drops the error: nothing printed, exit status 0
Abort_Swallowed(kind) ==
    /\ pc' = "aborted"
    /\ err' = kind
    /\ exitCode' = 0
    /\ stderr' = ""

\* the error is noted and the loop goes on
Abort_Continue(kind) ==
    /\ pc' = "scan"
    /\ err' = kind
    /\ UNCHANGED <<exitCode, stderr>>

\* an Err leaves organize_files through `?` or return; main prints it and exits 1
Abort(kind) ==
    /\ pc' = "aborted"
    /\ err' = kind
    /\ exitCode' = 1
    /\ stderr' = "Error: "

\* expect and unwrap panic: the runtime prints the panic and the process exits 101
Panic(message) ==
    /\ pc' = "panicked"
    /\ err' = message
    /\ exitCode' = 101
    /\ stderr' = "thread 'main' panicked"

\* line 60: fs::read_to_string(config_path)?
ReadConfig ==
    /\ pc = "read_config"
    /\ IF cfg.readable THEN Goto("parse_config") ELSE Abort("read_to_string")
    /\ UNCHANGED <<source_dir, cfg, fs, config, dirs, mappings, pending, path, dest_dir,
                   run, fsRun, passed, renamed, enumerated, resolutions>>

\* lines 61-62: parse::<Value>().expect(..)
ParseConfig ==
    /\ pc = "parse_config"
    /\ IF cfg.parsable
       THEN config' = cfg.root /\ Goto("extract_dirs")
       ELSE Panic("Failed to parse the config file") /\ UNCHANGED config
    /\ UNCHANGED <<source_dir, cfg, fs, dirs, mappings, pending, path, dest_dir,
                   run, fsRun, passed, renamed, enumerated, resolutions>>

\* lines 65-68
ExtractDirectories ==
    /\ pc = "extract_dirs"
    /\ LET r == ExtractDirs(config)
       IN  IF r.panic = ""
           THEN /\ dirs' = Some([images |-> r.images, documents |-> r.documents, audio |-> r.audio])
                /\ resolutions' = resolutions + 1
                /\ Goto("mappings")
           ELSE Panic(r.panic) /\ UNCHANGED <<dirs, resolutions>>
    /\ UNCHANGED <<source_dir, cfg, fs, config, mappings, pending, path, dest_dir,
                   run, fsRun, passed, renamed, enumerated>>

\* line 70
BuildMappings ==
    /\ pc = "mappings"
    /\ mappings' = get_file_type_mappings
    /\ Goto("check_source")
    /\ UNCHANGED <<source_dir, cfg, fs, config, dirs, pending, path, dest_dir,
                   run, fsRun, passed, renamed, enumerated, resolutions>>

\* lines 73-78
CheckSource ==
    /\ pc = "check_source"
    /\ IF Exists(fs, source_dir) THEN Goto("read_dir") ELSE Abort("NotFound")
    /\ UNCHANGED <<source_dir, cfg, fs, config, dirs, mappings, pending, path, dest_dir,
                   run, fsRun, passed, renamed, enumerated, resolutions>>

\* line 80, fs::read_dir(source_dir)?: opening the directory fails on a path that
\* is no directory, and may fail on the platform's account
ReadDir ==
    /\ pc = "read_dir"
    /\ \E fault \in BOOLEAN :
        IF ~IsDir(fs, source_dir) \/ fault
        THEN /\ Abort(IF ~IsDir(fs, source_dir) THEN "NotADirectory" ELSE "read_dir")
             /\ UNCHANGED <<pending, enumerated>>
        ELSE /\ pending' = {FileName(p) : p \in Children(fs, source_dir)}
             /\ enumerated' = enumerated \cup {source_dir}
             /\ Goto("scan")
    /\ UNCHANGED <<source_dir, cfg, fs, config, dirs, mappings, path, dest_dir,
                   run, fsRun, passed, renamed, resolutions>>

\* the check for a directory left out
SkipEntry_Never(f, p) == FALSE

\* lines 85-87: if path.is_dir() { continue; }
SkipEntry(f, p) == IsDir(f, p)

\* lines 89-98: the category of the entry's extension, if it has one
CategoryOf(m, p) ==
    LET extension == get_extension(p)
    IN  IF extension = None THEN None ELSE Classify(m, extension[1])

\* lines 80-103, one turn of the loop up to the call of move_file: the iterator
\* yields an entry (in the platform's order) or an error; the table is then
\* walked in one of its iteration orders
NextEntry ==
    /\ pc = "scan"
    /\ \/ /\ pending # {}
          /\ Abort("entry")
          /\ UNCHANGED <<pending, path, dest_dir, passed>>
       \/ \E name \in pending :
            LET p == Join(source_dir, name)
            IN  \E category \in {CategoryOf(order, p) : order \in IterationOrders(mappings)} :
                 /\ pending' = pending \ {name}
                 /\ IF SkipEntry(fs, p) \/ category = None
                    THEN Goto("scan") /\ UNCHANGED <<path, dest_dir, passed>>
                    ELSE /\ path' = p
                         /\ dest_dir' = DestDirOf(dirs[1], category[1])
                         /\ passed' = passed (+) SetToBag({p})
                         /\ Goto("create_dir")
    /\ UNCHANGED <<source_dir, cfg, fs, config, dirs, mappings,
                   run, fsRun, renamed, enumerated, resolutions>>

\* line 37, fs::create_dir_all(destination)?: a fault of the platform may strike
\* after some of the missing directories were made; a directory made inside the
\* source directory may or may not show up in the running iteration
CreateDestination ==
    /\ pc = "create_dir"
    /\ LET missing == MissingDirs(fs, dest_dir)
           shortest(k) == {q \in missing : Cardinality({r \in missing : Len(r) < Len(q)}) < k}
       IN  \/ /\ CreateDirAllFails(fs, dest_dir)
              /\ Abort("create_dir_all")
              /\ UNCHANGED <<fs, pending>>
           \/ /\ ~CreateDirAllFails(fs, dest_dir)
              /\ \E k \in 0..(Cardinality(missing) - 1) :
                    fs' = MakeDirs(fs, shortest(k))
              /\ Abort("create_dir_all")
              /\ UNCHANGED pending
           \/ /\ ~CreateDirAllFails(fs, dest_dir)
              /\ fs' = CreateDirAll(fs, dest_dir)
              /\ \E seen \in SUBSET {FileName(q) : q \in {r \in missing : Parent(r) = source_dir}} :
                    pending' = pending \cup seen
              /\ Goto("rename")
    /\ UNCHANGED <<source_dir, cfg, config, dirs, mappings, path, dest_dir,
                   run, fsRun, passed, renamed, enumerated, resolutions>>

\* lines 39-43: a path read_dir yields always has a file name
RenameFile ==
    /\ pc = "rename"
    /\ LET dest_path == Join(dest_dir, FileName(path))
       IN  \E fault \in BOOLEAN :
            IF fault \/ RenameFails(fs, path, dest_path)
            THEN Abort("rename") /\ UNCHANGED <<fs, renamed, path, dest_dir>>
            ELSE /\ fs' = Rename(fs, path, dest_path)
                 /\ renamed' = renamed \cup {path}
                 /\ path' = <<>>
                 /\ dest_dir' = <<>>
                 /\ Goto("scan")
    /\ UNCHANGED <<source_dir, cfg, config, dirs, mappings, pending,
                   run, fsRun, passed, enumerated, resolutions>>

\* line 106: the iterator is exhausted, Ok(()); main returns, exit status 0
Finish ==
    /\ pc = "scan"
    /\ pending = {}
    /\ pc' = "done"
    /\ exitCode' = 0
    /\ UNCHANGED <<source_dir, cfg, fs, config, dirs, mappings, pending, path, dest_dir,
                   err, stderr, run, fsRun, passed, renamed, enumerated, resolutions>>

\* the program is run a second time, same arguments, after a successful first run
RunAgain ==
    /\ pc = "done"
    /\ run = "first"
    /\ run' = "second"
    /\ fsRun' = fs
    /\ RunStart
    /\ UNCHANGED <<source_dir, cfg, fs>>

Next ==
    \/ ReadConfig
    \/ ParseConfig
    \/ ExtractDirectories
    \/ BuildMappings
    \/ CheckSource
    \/ ReadDir
    \/ NextEntry
    \/ CreateDestination
    \/ RenameFile
    \/ Finish
    \/ RunAgain

Spec == Init /\ [][Next]_vars

----------------------------------------------------------------------------
(* What the claims speak of, read off the inputs and the history *)

Terminal == pc \in {"done", "aborted", "panicked"}
Scanning == pc \in {"scan", "create_dir", "rename"}

\* the config file is readable and parsable and binds the three keys of its
\* directories section to strings
ValidConfig(c) ==
    /\ c.readable
    /\ c.parsable
    /\ "directories" \in DOMAIN c.root.tbl
    /\ c.root.tbl["directories"].type = "table"
    /\ \A k \in {"images", "documents", "audio"} :
          /\ k \in DOMAIN c.root.tbl["directories"].tbl
          /\ c.root.tbl["directories"].tbl[k].type = "string"

KeyOfCategory(category) ==
    CASE category = "Images" -> "images"
      [] category = "Documents" -> "documents"
      [] category = "Audio" -> "audio"

\* the directory a valid config file gives a category
ConfiguredDir(c, category) == c.root.tbl["directories"].tbl[KeyOfCategory(category)].str

\* the names an entry of the source directory can have
EntryNames == {c.name : c \in Candidates}

\* the categories whose extension set holds the lower-cased extension of a name
ListingOfName ==
    [n \in EntryNames |->
        IF get_extension(<<n>>) = None THEN {}
        ELSE {e.category : e \in {x \in get_file_type_mappings : AnyEq(x.extensions, get_extension(<<n>>)[1])}}]

CategoriesListing(p) == ListingOfName[FileName(p)]

TheCategory(p) == CHOOSE c \in CategoriesListing(p) : TRUE

\* the regular files and the directories directly inside the source directory
\* when the run started
SourceFiles == {p \in Children(fsRun, source_dir) : IsFile(fsRun, p)}
SourceSubdirs == {p \in Children(fsRun, source_dir) : IsDir(fsRun, p)}

Classified == {p \in SourceFiles : Cardinality(CategoriesListing(p)) = 1}
Unclassified == {p \in SourceFiles : CategoriesListing(p) = {}}

\* where the config sends a classified file
Target(p) == Join(ConfiguredDir(cfg, TheCategory(p)), FileName(p))

----------------------------------------------------------------------------
(* C1 *)

\* C1 as stated: after a successful run every classified file of the source
\* directory is at <its category's directory>/<its name> and no longer at its
\* original path, for every destination map.  Fails when a category's directory
\* is the source directory itself: the rename maps the file onto itself.
C1_AsStated ==
    pc = "done" =>
        \A p \in Classified :
            /\ Exists(fs, Target(p))
            /\ fs[Target(p)] = fsRun[p]
            /\ ~Exists(fs, p)

\* C1 amended: after a successful run every classified file is at <its category's
\* directory>/<its name>; it is gone from its original path unless that directory
\* is the source directory, in which case it is still where it was.
C1_MovedToCategoryDir ==
    pc = "done" =>
        \A p \in Classified :
            /\ Exists(fs, Target(p))
            /\ fs[Target(p)] = fsRun[p]
            /\ ConfiguredDir(cfg, TheCategory(p)) # source_dir => ~Exists(fs, p)
            /\ ConfiguredDir(cfg, TheCategory(p)) = source_dir => Target(p) = p

\* a successful first run that moved two files, one of them with an upper-case
\* extension, out of the source directory
C1_Witness ==
    /\ pc = "done"
    /\ run = "first"
    /\ Cardinality(Classified) = 2
    /\ Join(SRC, nPhoto) \in Classified
    /\ \A p \in Classified : ~Exists(fs, p) /\ fs[Target(p)] = fsRun[p]

----------------------------------------------------------------------------
(* C2 *)

\* C2: a file of the source directory with no extension, an empty extension or
\* an extension in none of the three sets is, at every moment of every run, where
\* it was, was never handed to move_file, and is not the file whose move is under
\* way or has failed.
C2_UnclassifiedUntouched ==
    \A p \in Unclassified :
        /\ Exists(fs, p)
        /\ fs[p] = fsRun[p]
        /\ CopiesIn(p, passed) = 0
        /\ path # p

\* a successful run that moved a file and passed over a file with an unknown
\* extension
C2_Witness ==
    /\ pc = "done"
    /\ renamed # {}
    /\ Join(SRC, nZip) \in Unclassified
    /\ fs[Join(SRC, nZip)] = fsRun[Join(SRC, nZip)]

----------------------------------------------------------------------------
(* C3 *)

\* C3: a directory directly inside the source directory stays a directory at its
\* path, is never handed to move_file and never listed; nothing that was below it
\* turns up anywhere else; only entries directly in the source directory are
\* handed to move_file, and only the source directory is listed.
C3_SubdirsUntouched ==
    /\ \A d \in SourceSubdirs :
          /\ IsDir(fs, d)
          /\ CopiesIn(d, passed) = 0
          /\ path # d
          /\ d \notin enumerated
          /\ \A q \in Below(fsRun, d) :
                /\ Exists(fs, q)
                /\ fs[q].kind = fsRun[q].kind
                /\ IsFile(fsRun, q) => \A r \in DOMAIN fs : fs[r] = fsRun[q] => r = q
    /\ \A p \in BagToSet(passed) : Parent(p) = source_dir
    /\ enumerated \subseteq {source_dir}

\* a successful run that moved a file and passed over a directory whose name ends
\* in a known extension
C3_Witness ==
    /\ pc = "done"
    /\ renamed # {}
    /\ Join(SRC, nAlbum) \in SourceSubdirs
    /\ IsDir(fs, Join(SRC, nAlbum))

----------------------------------------------------------------------------
(* C4 *)

\* C4: with a valid config and a source path that does not exist the filesystem
\* never changes, no file is moved, the run never reaches the scan nor success,
\* and it terminates only with "Error: " on the error stream and exit status 1.
C4_MissingSource ==
    (ValidConfig(cfg) /\ ~Exists(fsRun, source_dir)) =>
        /\ fs = fsRun
        /\ renamed = {}
        /\ passed = EmptyBag
        /\ pc \notin {"done", "panicked", "read_dir"}
        /\ ~Scanning
        /\ Terminal => exitCode = 1 /\ stderr = "Error: "

\* the run ended on a missing source path although the directory src holds a file
\* it would move
C4_Witness ==
    /\ pc = "aborted"
    /\ ValidConfig(cfg)
    /\ source_dir = GONE
    /\ IsFile(fs, Join(SRC, nNotes))

----------------------------------------------------------------------------
(* C5 *)

\* the config file is well formed but for the audio key, which it lacks
LacksAudio(c) ==
    /\ c.readable
    /\ c.parsable
    /\ "directories" \in DOMAIN c.root.tbl
    /\ c.root.tbl["directories"].type = "table"
    /\ DOMAIN c.root.tbl["directories"].tbl = {"images", "documents"}
    /\ \A k \in {"images", "documents"} : c.root.tbl["directories"].tbl[k].type = "string"

\* C5 as stated: a run on a config file that lacks the audio key ends with
\* "Error: " on the error stream and exit status 1, the source directory not listed.
\* The code panics in expect: exit status 101 and the panic message.
C5_AsStated ==
    (LacksAudio(cfg) /\ Terminal) =>
        /\ exitCode = 1
        /\ stderr = "Error: "
        /\ enumerated = {}

----------------------------------------------------------------------------
(* C6 *)

\* C6: a run resolves the configuration at most once, and has done so exactly
\* once before it checks the source, lists it, creates a directory or renames a
\* file; when the config file is not valid the run never gets that far: the
\* filesystem stays as it was and no file is moved.
C6_ResolutionFirst ==
    /\ resolutions <= 1
    /\ (pc \in {"mappings", "check_source", "read_dir", "scan", "create_dir", "rename", "done"}
          \/ fs # fsRun \/ renamed # {} \/ passed # EmptyBag \/ enumerated # {})
         => resolutions = 1 /\ dirs # None
    /\ ~ValidConfig(cfg) =>
          /\ resolutions = 0
          /\ fs = fsRun
          /\ renamed = {}
          /\ passed = EmptyBag
          /\ enumerated = {}
          /\ pc \in {"read_config", "parse_config", "extract_dirs", "aborted", "panicked"}

\* a run stopped in configuration resolution although the source directory holds
\* a file it would move
C6_Witness ==
    /\ Terminal
    /\ ~ValidConfig(cfg)
    /\ source_dir = SRC
    /\ Classified # {}

----------------------------------------------------------------------------
(* C7 *)

\* C7 as stated: a second run after a successful first one moves no file and
\* leaves the filesystem as the first run left it, for every destination map.  Fails when a category's directory is the source
\* directory: its files are still there and are renamed onto themselves again.
C7_AsStated ==
    run = "second" =>
        /\ fs = fsRun
        /\ renamed = {}

\* C7 amended: a second run after a successful first one leaves the filesystem as
\* the first run left it; the only files it hands to move_file are those whose
\* category's directory is the source directory itself, renamed onto themselves.
C7_SecondRunChangesNothing ==
    run = "second" =>
        /\ fs = fsRun
        /\ \A p \in BagToSet(passed) :
              /\ p \in Classified
              /\ ConfiguredDir(cfg, TheCategory(p)) = source_dir
        /\ \A p \in Classified : ConfiguredDir(cfg, TheCategory(p)) = source_dir

\* the second run ended well after a first run that moved a file away and left
\* another in place
C7_Witness ==
    /\ run = "second"
    /\ pc = "done"
    /\ Unclassified # {}
    /\ ~Exists(fs, Join(SRC, nPhoto))
    /\ \E d \in {<<nOut, nImg>>, SUB} : IsFile(fs, Join(d, nPhoto)) /\ fs[Join(d, nPhoto)].id = Join(SRC, nPhoto)

----------------------------------------------------------------------------
(* C8 *)

ScanErrors == {"entry", "create_dir_all", "rename"}

\* C8: once an error has occurred the run is over: it is in a terminal state, and
\* after an Err (all errors of the scan are such) that state is Aborted with exit
\* status 1; every file renamed so far is at its destination, error or not; the run
\* is Done, and the exit status 0, only with no error.
C8_FirstErrorAborts ==
    /\ err # "none" => pc \in {"aborted", "panicked"}
    /\ err \in ScanErrors => pc = "aborted" /\ exitCode = 1 /\ stderr = "Error: "
    /\ pc = "aborted" => err # "none" /\ exitCode = 1
    /\ pc = "done" <=> exitCode = 0
    /\ pc = "done" => err = "none"
    /\ \A p \in renamed : Exists(fs, Target(p)) /\ fs[Target(p)] = fsRun[p]

\* the scan was aborted by an error after it had moved a file
C8_Witness ==
    /\ pc = "aborted"
    /\ err \in ScanErrors
    /\ pending # {}
    /\ \E p \in renamed : ~Exists(fs, p) /\ fs[Target(p)] = fsRun[p]

----------------------------------------------------------------------------
(* C9 *)

\* C9 as stated: when the source path is no existing directory (it is missing, or
\* it is a regular file) the run fails with the NotFound error of the explicit
\* check, before the directory is opened.  The check is exists(): a regular file
\* passes it and read_dir fails, with another error.
C9_AsStated ==
    (ValidConfig(cfg) /\ ~IsDir(fsRun, source_dir) /\ Terminal) =>
        /\ err = "NotFound"
        /\ renamed = {}

----------------------------------------------------------------------------
(* C10 *)

\* every extension the table lists
ListedExtensions == UNION {{e.extensions[i] : i \in 1..Len(e.extensions)} : e \in get_file_type_mappings}

\* the categories the loop can give a name, over the iteration orders of the table
CategoriesOverOrders ==
    [n \in EntryNames |->
        {CategoryOf(o, <<n>>) : o \in IterationOrders(get_file_type_mappings)}]

====
